---------------------------- MODULE Spec2Model ----------------------------
(***************************************************************************)
(* A model of pymake's drivers and of its trace writer.                    *)
(*                                                                         *)
(*   - Tracer (pymake/command.py): several processes append records to one *)
(*     trace file, each write guarded by a lockfile that is created with   *)
(*     O_CREAT|O_EXCL and removed with unlink.                             *)
(*   - main / _MakeContext (pymake/command.py): the callback-driven run:   *)
(*     option handling, directory banners, the restart loop around         *)
(*     remakemakefiles, the requested targets and the exit code.           *)
(*   - make.py: the older, synchronous entry point with the same phases.   *)
(*                                                                         *)
(* data.Makefile, Target.make and process.Context are not part of the      *)
(* sources at hand: their outcomes (an exception, the arguments of a       *)
(* completion callback) are inputs chosen with \E.                         *)
(***************************************************************************)
EXTENDS Integers, Sequences, FiniteSets, TLC

(***************************************************************************)
(* Bounds of the model.                                                    *)
(***************************************************************************)
NProcs == 2          \* processes sharing one trace file
MaxRecords == 2      \* Tracer._write calls of all processes together
NParts == 3          \* pieces json.dump hands to f.write for one record
MaxTargets == 2      \* length of the command-line target list
MaxMakefiles == 2    \* number of -f options
MaxRestarts == 3     \* cap on the restart counter when remakes never settle

Procs == 1..NProcs
TargetNames == {1, 2}

VARIABLES
  \* ---- Tracer ----
  tpc,        \* tpc[p]: where process p is inside Tracer._write
  lockfile,   \* TRUE iff the file self.lockpath exists
  locked,     \* locked[p]: self.locked of p's Tracer
  fopen,      \* fopen[p]: self.f of p's Tracer is an open file
  buf,        \* buf[p]: bytes written to self.f and not yet flushed
  file,       \* the trace file: the pieces that reached it, in order
  nrec,       \* nrec[p]: number of _write calls p has started
  lasterr,    \* lasterr[p]: errno of p's last failed os.open of the lockfile
  \* ---- main / _MakeContext / make.py ----
  entry,      \* "command" (pymake.command.main), "makepy" (make.py), "tracer"
  opt,        \* the parsed options and the environment of the run
  pc,         \* position of the run
  restarts,   \* _MakeContext.restarts / parse()'s i
  mkobjs,     \* restarts argument of every Makefile object created, in order
  rebuilt,    \* makefiles that an earlier remake pass has rebuilt
  fixpoint,   \* TRUE: the remakes obey the restart fixpoint
  argtargets, \* the targets parsecommandlineargs found on the command line
  targets,    \* the list object self.targets
  realtargets,\* self.realtargets: a reference to self.targets, or a list of its own
  deferred,   \* calls queued with context.defer and not yet run
  log,        \* what the run has printed and done so far, in order
  \* ---- parsemakeflags ----
  makeflags,  \* the value of MAKEFLAGS in the environment
  flagsout,   \* what parsemakeflags made of it
  \* ---- trace file and TraceParser ----
  trace,      \* the lines of a trace file
  ppc,        \* position of the TraceParser
  pidx,       \* number of lines parse_file has read
  delivered,  \* the calls parse_file has made to its callback, in order
  \* ---- the consumers of the trace events ----
  events,     \* the events handed to the callback so far, in file order
  tobj,       \* the Trace object: its tables and its timeline
  ctx         \* the tables of the get_* method that is scanning the file

tvars == <<tpc, lockfile, locked, fopen, buf, file, nrec, lasterr>>
mvars == <<argtargets, opt, pc, restarts, mkobjs, rebuilt, fixpoint, targets, realtargets,
           deferred, log>>
vars == <<tpc, lockfile, locked, fopen, buf, file, nrec, lasterr, entry,
          argtargets, opt, pc, restarts, mkobjs, rebuilt, fixpoint, targets, realtargets,
          deferred, log, makeflags, flagsout, trace, ppc, pidx, delivered,
          events, tobj, ctx>>
xvars == <<makeflags, flagsout, trace, ppc, pidx, delivered>>
evars == <<events, tobj, ctx>>

(***************************************************************************)
(* Tracer: pymake/command.py lines 75-124.                                 *)
(***************************************************************************)

\* One piece of the record number k of process p.  Piece NParts is the
\* newline that _write writes after json.dump.
Piece(p, k, i) == [pid |-> p, rec |-> k, part |-> i]

\* os.open(lockpath, O_CREAT|O_EXCL|O_RDWR) on a plain file system: without
\* O_EXCL the call succeeds whether or not the file exists.
os_open_noexcl(exists) == {"ok"}

\* os.open(self.lockpath, os.O_CREAT|os.O_EXCL|os.O_RDWR, 0777): the outcomes
\* the call can have when the lockfile exists / does not exist.  EACCES and
\* any other errno can come from the file system in either case.
os_open_excl(exists) ==
  (IF exists THEN {"EEXIST"} ELSE {"ok"}) \cup {"EACCES", "other"}

\* Tracer.__init__ state of every process, nothing written yet.
TracerInit ==
  /\ tpc = [p \in Procs |-> "idle"]
  /\ lockfile = FALSE
  /\ locked = [p \in Procs |-> FALSE]
  /\ fopen = [p \in Procs |-> FALSE]
  /\ buf = [p \in Procs |-> <<>>]
  /\ file = <<>>
  /\ nrec = [p \in Procs |-> 0]
  /\ lasterr = [p \in Procs |-> "none"]

\* The number of _write calls the processes 1..n have started.
RECURSIVE Started(_)
Started(n) == IF n = 0 THEN 0 ELSE nrec[n] + Started(n - 1)

\* _write, line 92: self._open(); the next step is self._acquire_lock().
Tracer_open(p) ==
  /\ tpc[p] = "idle"
  /\ Started(NProcs) < MaxRecords
  /\ nrec' = [nrec EXCEPT ![p] = @ + 1]
  /\ fopen' = [fopen EXCEPT ![p] = TRUE]
  /\ tpc' = [tpc EXCEPT ![p] = "acquire"]
  /\ UNCHANGED <<lockfile, locked, buf, file, lasterr>>
  /\ UNCHANGED <<entry, mvars, xvars, evars>>

\* A loop that goes on after EACCES only, and raises when the lockfile exists.
acquire_retries_eacces_only(errno) == errno = "EACCES"

\* The errors after which the loop of _acquire_lock goes round again,
\* command.py 105-110.
acquire_retries(errno) == errno \in {"EEXIST", "EACCES"}

\* One iteration of the loop of _acquire_lock.
Tracer_acquire_lock(p) ==
  /\ tpc[p] = "acquire"
  /\ \E r \in os_open_excl(lockfile) :
       CASE r = "ok" ->
              /\ lockfile' = TRUE
              /\ locked' = [locked EXCEPT ![p] = TRUE]
              /\ tpc' = [tpc EXCEPT ![p] = "dump"]
              /\ UNCHANGED lasterr
         [] r # "ok" /\ acquire_retries(r) ->
              /\ lasterr' = [lasterr EXCEPT ![p] = r]
              /\ UNCHANGED <<lockfile, locked, tpc>>
         [] OTHER ->
              /\ lasterr' = [lasterr EXCEPT ![p] = r]
              /\ tpc' = [tpc EXCEPT ![p] = "oserror"]
              /\ UNCHANGED <<lockfile, locked>>
  /\ UNCHANGED <<fopen, buf, file, nrec>>
  /\ UNCHANGED <<entry, mvars, xvars, evars>>

\* f.write of one piece: it goes to the buffer of self.f, and the buffer is
\* handed to the file when it is full (spill).
FWrite(p, piece, spill) ==
  LET b == Append(buf[p], piece) IN
  IF spill THEN /\ file' = file \o b
                /\ buf' = [buf EXCEPT ![p] = <<>>]
           ELSE /\ buf' = [buf EXCEPT ![p] = b]
                /\ UNCHANGED file

\* json.dump(o, self.f), line 94: one piece per step.
Tracer_dump(p) ==
  /\ tpc[p] = "dump"
  /\ LET done == Len(SelectSeq(file \o buf[p],
                        LAMBDA c : c.pid = p /\ c.rec = nrec[p]))
     IN /\ \E spill \in BOOLEAN : FWrite(p, Piece(p, nrec[p], done + 1), spill)
        /\ tpc' = [tpc EXCEPT ![p] =
                     IF done + 1 = NParts - 1 THEN "newline" ELSE "dump"]
  /\ UNCHANGED <<lockfile, locked, fopen, nrec, lasterr>>
  /\ UNCHANGED <<entry, mvars, xvars, evars>>

\* json.dump raises (a payload it cannot encode): _write is left through the
\* exception, line 97 is not reached.
Tracer_dump_raises(p) ==
  /\ tpc[p] = "dump"
  /\ tpc' = [tpc EXCEPT ![p] = "raised"]
  /\ UNCHANGED <<lockfile, locked, fopen, buf, file, nrec, lasterr>>
  /\ UNCHANGED <<entry, mvars, xvars, evars>>

\* self.f.write('\n'), line 95.
Tracer_newline(p) ==
  /\ tpc[p] = "newline"
  /\ \E spill \in BOOLEAN : FWrite(p, Piece(p, nrec[p], NParts), spill)
  /\ tpc' = [tpc EXCEPT ![p] = "flush"]
  /\ UNCHANGED <<lockfile, locked, fopen, nrec, lasterr>>
  /\ UNCHANGED <<entry, mvars, xvars, evars>>

\* self.f.flush(), line 96.
Tracer_flush(p) ==
  /\ tpc[p] = "flush"
  /\ file' = file \o buf[p]
  /\ buf' = [buf EXCEPT ![p] = <<>>]
  /\ tpc' = [tpc EXCEPT ![p] = "release"]
  /\ UNCHANGED <<lockfile, locked, fopen, nrec, lasterr>>
  /\ UNCHANGED <<entry, mvars, xvars, evars>>

\* The body of _release_lock: close, unlink, self.locked = False.
release_lock(p) ==
  IF locked[p] THEN /\ lockfile' = FALSE
                    /\ locked' = [locked EXCEPT ![p] = FALSE]
               ELSE UNCHANGED <<lockfile, locked>>

\* self._release_lock(), line 97, the last statement of _write.
Tracer_release_lock(p) ==
  /\ tpc[p] = "release"
  /\ release_lock(p)
  /\ tpc' = [tpc EXCEPT ![p] = "idle"]
  /\ UNCHANGED <<fopen, buf, file, nrec, lasterr>>
  /\ UNCHANGED <<entry, mvars, xvars, evars>>

\* Tracer.__del__: the Tracer of a process whose _write raised goes away.
Tracer_del(p) ==
  /\ tpc[p] \in {"raised", "oserror"}
  /\ release_lock(p)
  /\ tpc' = [tpc EXCEPT ![p] = "dead"]
  /\ UNCHANGED <<fopen, buf, file, nrec, lasterr>>
  /\ UNCHANGED <<entry, mvars, xvars, evars>>

NextTracer ==
  \E p \in Procs :
    \/ Tracer_open(p)
    \/ Tracer_acquire_lock(p)
    \/ Tracer_dump(p)
    \/ Tracer_dump_raises(p)
    \/ Tracer_newline(p)
    \/ Tracer_flush(p)
    \/ Tracer_release_lock(p)
    \/ Tracer_del(p)

\* The driver variables are not used by the trace writer.
NoRun ==
  /\ opt = [none |-> TRUE]
  /\ pc = "none"
  /\ restarts = 0
  /\ mkobjs = <<>>
  /\ rebuilt = {}
  /\ fixpoint = FALSE
  /\ argtargets = <<>>
  /\ targets = <<>>
  /\ realtargets = [ref |-> "none", own |-> <<>>]
  /\ deferred = <<>>
  /\ log = <<>>

\* Neither MAKEFLAGS nor a trace file is looked at.
NoExtras ==
  /\ makeflags = <<>>
  /\ flagsout = [who |-> "none"]
  /\ trace = <<>>
  /\ ppc = "none"
  /\ pidx = 0
  /\ delivered = <<>>
  /\ events = <<>>
  /\ tobj = [none |-> TRUE]
  /\ ctx = [none |-> TRUE]

InitTracer == entry = "tracer" /\ TracerInit /\ NoRun /\ NoExtras

SpecTracer == InitTracer /\ [][NextTracer]_vars

\* Every process goes on running, and a process whose attempt to create the
\* lockfile could succeed from some time on without end does succeed.
TracerFairness ==
  \A p \in Procs :
    /\ WF_vars(Tracer_dump(p) \/ Tracer_newline(p) \/ Tracer_flush(p)
                 \/ Tracer_release_lock(p) \/ Tracer_del(p))
    /\ WF_vars(Tracer_acquire_lock(p) /\ locked'[p])

SpecTracerFair == InitTracer /\ [][NextTracer]_vars /\ TracerFairness

(***************************************************************************)
(* The runs: pymake/command.py main and _MakeContext, and make.py.         *)
(***************************************************************************)

\* The option values after op.parse_args (command.py 330-331, make.py 90) and
\* the two facts of the environment the drivers ask for: whether MAKEFLAGS
\* ends in an unescaped backslash and whether ./Makefile exists.
Options ==
  [printversion : BOOLEAN, keepgoing : BOOLEAN, printdir : BOOLEAN,
   silent : BOOLEAN, badflags : BOOLEAN, nfiles : 0..MaxMakefiles,
   exists : BOOLEAN]

\* make.py declares neither -k nor -s nor -w (make.py 69-86).
MakePyOptions ==
  {o \in Options : ~o.keepgoing /\ ~o.silent /\ o.printdir}

TargetLists == UNION {[1..n -> TargetNames] : n \in 0..MaxTargets}

Ev(e, a) == [ev |-> e, arg |-> a, mk |-> 0]
EvMk(e, a, m) == [ev |-> e, arg |-> a, mk |-> m]

\* options.makefiles after command.py 391-393 / make.py 120-122: the -f
\* files, or the one file Makefile.
makefiles(o) == IF o.nfiles = 0 THEN 1..1 ELSE 1..o.nfiles

\* options.printdir left as -w set it.
printdir_ignores_silent(o) == o.printdir

\* options.printdir after command.py 348-353: -s switches it off.
printdir(o) == IF o.silent THEN FALSE ELSE o.printdir

\* The banner of command.py 404-405 and 276-277.
Leaving(o) == IF printdir(o) THEN <<Ev("leaving", 0)>> ELSE <<>>

\* The banner of command.py 387-389.
Entering(o) == IF printdir(o) THEN <<Ev("entering", 0)>> ELSE <<>>

\* A pass that starts the remake before finishparsing.
PassSteps_remake_early(o) ==
  <<[ev |-> "ostmts", arg |-> 0, mk |-> 0]>>
  \o [i \in 1..(IF o.nfiles = 0 THEN 1 ELSE o.nfiles) |->
        [ev |-> "include", arg |-> i, mk |-> 0]]
  \o <<[ev |-> "remakemakefiles", arg |-> 0, mk |-> 0],
       [ev |-> "finishparsing", arg |-> 0, mk |-> 0]>>

\* The calls of one parse pass in the order of command.py 242-246 (and of
\* make.py 136-143): command-line statements, every makefile in the order of
\* options.makefiles, finishparsing, remakemakefiles.
PassSteps(o) ==
  <<Ev("ostmts", 0)>>
  \o [i \in 1..Cardinality(makefiles(o)) |-> Ev("include", i)]
  \o <<Ev("finishparsing", 0), Ev("remakemakefiles", 0)>>

\* A Makefile object created with the counter one too high.
MakefileRestartsArg_off(r) == r + 1

\* The restarts argument of data.Makefile(restarts=self.restarts, ...),
\* command.py 225, and of Makefile(restarts=i, ...), make.py 132.
MakefileRestartsArg(r) == r

\* Targets made although the makefiles were rebuilt.
remakecb_restart_ignored(remade) == FALSE

\* A new parse pass whatever the remake reported.
remakecb_restart_always(remade) == TRUE

\* command.py 221: "if remade:" sends remakecb into a new parse pass.
remakecb_restart(remade) == remade

\* makecb going on to the next target after a failed one.
makecb_stops_never(error) == FALSE

\* command.py 271: "if error:" ends the run with cb(2).
makecb_stops(error) == error

\* A failed target reported as success.
makecb_exitcode_zero(error) == 0

\* The code makecb hands to self.cb: 2 after an error (command.py 272), 0
\* after the last target (command.py 283).
makecb_exitcode(error) == IF error THEN 2 ELSE 0

\* len(self.realtargets): self.realtargets is the list self.targets itself
\* (command.py 263) or the one-element list of command.py 260.
RealTargets ==
  IF realtargets.ref = "targets" THEN targets ELSE realtargets.own

\* The default goal put on the list twice.
defaulttargets_twice(d) == <<d, d>>

\* [self.makefile.defaulttarget], command.py 260 (make.py 160).
defaulttargets(d) == <<d>>

\* The last entry of the list taken in place of the first.
realtargets_pop_last(l) == l[Len(l)]

\* The target self.realtargets.pop(0) returns, command.py 266 and 285.
realtargets_pop0(l) == Head(l)

\* -v going unnoticed.
options_printversion_ignored(o) == FALSE

\* if options.printversion, command.py 337 (make.py 66-67: the -v callback).
options_printversion(o) == o.printversion

\* self.context.defer(self.cb, code).
Defer(lg, code) ==
  /\ log' = lg \o <<Ev("defer", code)>>
  /\ deferred' = Append(deferred, code)
  /\ pc' = "deferred"

\* _MakeContext.remakecb(remade, error), command.py 215-266, called with
\* lg being what the run did before the call.
remakecb(remade, error, lg) ==
  IF error
  THEN /\ Defer(lg \o <<Ev("error", 0)>>, 2)
       /\ UNCHANGED <<restarts, mkobjs, targets, realtargets>>
  ELSE IF remakecb_restart(remade)
  THEN /\ mkobjs' = Append(mkobjs, MakefileRestartsArg(restarts))
       /\ restarts' = restarts + 1
       /\ LET steps == PassSteps(opt)
              lg1 == lg \o <<EvMk("makefile", MakefileRestartsArg(restarts),
                                  Len(mkobjs) + 1)>>
          IN \E failAt \in 0..Len(steps) :
               IF failAt = 0
               THEN /\ log' = lg1 \o steps
                    /\ pc' = "remaking"
                    /\ UNCHANGED deferred
               ELSE Defer(lg1 \o SubSeq(steps, 1, failAt)
                              \o <<Ev("error", failAt)>>, 2)
       /\ UNCHANGED <<targets, realtargets>>
  ELSE /\ UNCHANGED <<restarts, mkobjs>>
       /\ \E d \in {0} \cup TargetNames :
            IF Len(targets) = 0
            THEN IF d = 0
                 THEN /\ Defer(lg \o <<Ev("defaulttarget", d),
                                       Ev("nodefault", 0)>>, 2)
                      /\ UNCHANGED <<targets, realtargets>>
                 ELSE /\ realtargets' =
                           [ref |-> "own", own |-> Tail(defaulttargets(d))]
                      /\ log' = lg \o <<Ev("defaulttarget", d),
                                        EvMk("make",
                                             realtargets_pop0(defaulttargets(d)),
                                             Len(mkobjs))>>
                      /\ pc' = "making"
                      /\ UNCHANGED <<targets, deferred>>
            ELSE /\ realtargets' = [ref |-> "targets", own |-> <<>>]
                 /\ targets' = Tail(targets)
                 /\ log' = lg \o <<EvMk("make", realtargets_pop0(targets), Len(mkobjs))>>
                 /\ pc' = "making"
                 /\ UNCHANGED deferred

\* _MakeContext.makecb(error, didanything), command.py 268-285.
makecb(error, lg) ==
  IF makecb_stops(error)
  THEN /\ Defer(lg, makecb_exitcode(error))
       /\ UNCHANGED <<targets, realtargets>>
  ELSE IF Len(RealTargets) = 0
  THEN /\ Defer(lg \o Leaving(opt), makecb_exitcode(error))
       /\ UNCHANGED <<targets, realtargets>>
  ELSE /\ log' = lg \o <<EvMk("make", realtargets_pop0(RealTargets), Len(mkobjs))>>
       /\ IF realtargets.ref = "targets"
          THEN targets' = Tail(targets) /\ UNCHANGED realtargets
          ELSE /\ realtargets' = [realtargets EXCEPT !.own = Tail(@)]
               /\ UNCHANGED targets
       /\ pc' = "making"
       /\ UNCHANGED deferred

\* The run ends without another step: cb(code) called, or sys.exit(code).
Finish(lg, code) ==
  /\ log' = lg \o <<Ev("exit", code)>>
  /\ pc' = "done"
  /\ UNCHANGED <<restarts, mkobjs, targets, realtargets, deferred>>

\* main(args, env, cwd, cb), command.py 287-408, with _MakeContext.__init__
\* (193-213) and its call remakecb(True).
main ==
  /\ entry = "command"
  /\ pc = "start"
  /\ IF opt.badflags
     THEN \* 330 raises DataError; the handler prints e and then reads
          \* options.printdir (404), a local that was never bound
          /\ log' = log \o <<Ev("error", 0), Ev("crash", 0)>>
          /\ pc' = "crashed"
          /\ UNCHANGED <<restarts, mkobjs, targets, realtargets, deferred>>
     ELSE IF options_printversion(opt)
     THEN Finish(log \o <<Ev("version", 0)>>, 0)
     ELSE IF opt.nfiles = 0 /\ ~opt.exists
     THEN Finish(log \o Entering(opt) \o <<Ev("nomakefile", 0)>>, 2)
     ELSE \E argsok \in BOOLEAN :
            IF ~argsok
            THEN \* parsecommandlineargs raises, handler 402-408
                 Finish(log \o Entering(opt) \o <<Ev("error", 0)>>
                            \o Leaving(opt), 2)
            ELSE remakecb(TRUE, FALSE, log \o Entering(opt))
  /\ UNCHANGED <<entry, opt, argtargets, rebuilt, fixpoint, tvars, xvars, evars>>

\* What one remakemakefiles may report: an error, or the set of makefiles it
\* rebuilt.  Under the restart fixpoint no makefile is rebuilt twice;
\* without it the number of Makefile objects is capped by MaxRestarts.
RemakeOutcomes ==
  {[error |-> TRUE, R |-> {}]} \cup
  {[error |-> FALSE, R |-> R] : R \in
     {R \in SUBSET makefiles(opt) :
        IF fixpoint THEN R \cap rebuilt = {}
                    ELSE R = {} \/ Len(mkobjs) < MaxRestarts}}

RemakeEvent(out) ==
  IF out.error THEN Ev("remakeerror", 0)
  ELSE IF out.R # {} THEN Ev("remade", Cardinality(out.R))
  ELSE Ev("remakeok", 0)

\* remakemakefiles completes and calls self.remakecb(remade, error).
RemakeDone ==
  /\ entry = "command"
  /\ pc = "remaking"
  /\ \E out \in RemakeOutcomes :
       /\ rebuilt' = rebuilt \cup out.R
       /\ remakecb(out.R # {}, out.error, Append(log, RemakeEvent(out)))
  /\ UNCHANGED <<entry, opt, argtargets, fixpoint, tvars, xvars, evars>>

\* The make of a requested target completes and calls self.makecb.
TargetDone ==
  /\ entry = "command"
  /\ pc = "making"
  /\ \E error \in BOOLEAN :
       LET t == log[Len(log)].arg
       IN makecb(error, Append(log, Ev(IF error THEN "madefail" ELSE "madeok", t)))
  /\ UNCHANGED <<restarts, mkobjs>>
  /\ UNCHANGED <<entry, opt, argtargets, rebuilt, fixpoint, tvars, xvars, evars>>

\* The context runs a deferred call: cb(code).
RunDeferred ==
  /\ entry = "command"
  /\ pc = "deferred"
  /\ deferred # <<>>
  /\ log' = Append(log, Ev("exit", Head(deferred)))
  /\ deferred' = Tail(deferred)
  /\ pc' = "done"
  /\ UNCHANGED <<restarts, mkobjs, targets, realtargets>>
  /\ UNCHANGED <<entry, opt, argtargets, rebuilt, fixpoint, tvars, xvars, evars>>

(***************************************************************************)
(* make.py: the module body, lines 88-177.                                 *)
(***************************************************************************)

\* make.py 88-125: MAKEFLAGS, the options, the Entering banner and the
\* search for a makefile.
makepy_start ==
  /\ entry = "makepy"
  /\ pc = "start"
  /\ IF opt.badflags
     THEN \* 88: DataError outside the try statement of line 127
          /\ log' = log \o <<Ev("crash", 0)>>
          /\ pc' = "crashed"
          /\ UNCHANGED <<restarts, mkobjs, targets, realtargets, deferred>>
     ELSE IF options_printversion(opt)
     THEN Finish(log \o <<Ev("version", 0)>>, 0)
     ELSE IF opt.nfiles = 0 /\ ~opt.exists
     THEN Finish(log \o <<Ev("entering", 0), Ev("nomakefile", 0)>>, 2)
     ELSE /\ log' = log \o <<Ev("entering", 0)>>
          /\ pc' = "parse"
          /\ UNCHANGED <<restarts, mkobjs, targets, realtargets, deferred>>
  /\ UNCHANGED <<entry, opt, argtargets, rebuilt, fixpoint, tvars, xvars, evars>>

\* The handler of make.py 171-175.
makepy_except(lg) ==
  Finish(lg \o <<Ev("error", 0), Ev("leaving", 0)>>, 2)

\* One iteration of the loop of parse(), make.py 131-148.
makepy_parse ==
  /\ entry = "makepy"
  /\ pc = "parse"
  /\ LET steps == PassSteps(opt)
         lg1 == log \o <<EvMk("makefile", MakefileRestartsArg(restarts),
                              Len(mkobjs) + 1)>>
     IN \E failAt \in 0..Len(steps) :
          IF failAt # 0
          THEN /\ log' = lg1 \o SubSeq(steps, 1, failAt)
                         \o <<Ev("error", failAt), Ev("leaving", 0), Ev("exit", 2)>>
               /\ pc' = "done"
               /\ UNCHANGED <<restarts, rebuilt>>
          ELSE \E out \in {o \in RemakeOutcomes : ~o.error} :
                 /\ log' = lg1 \o steps \o <<RemakeEvent(out)>>
                 /\ rebuilt' = rebuilt \cup out.R
                 /\ IF remakecb_restart(out.R # {})
                    THEN restarts' = restarts + 1 /\ pc' = "parse"
                    ELSE UNCHANGED restarts /\ pc' = "maketargets"
  /\ mkobjs' = Append(mkobjs, MakefileRestartsArg(restarts))
  /\ UNCHANGED <<targets, realtargets, deferred>>
  /\ UNCHANGED <<entry, opt, argtargets, fixpoint, tvars, xvars, evars>>

\* What the loop of make.py 167-168 does for the first n targets of tl, the
\* n-th failing when failed is TRUE.
MakeLoop(tl, n, failed) ==
  [i \in 1..(2 * n) |->
     IF i % 2 = 1 THEN EvMk("make", tl[(i + 1) \div 2], Len(mkobjs))
     ELSE Ev(IF failed /\ i = 2 * n THEN "madefail" ELSE "madeok", tl[i \div 2])]

\* make.py 156-177: the default target, the loop over the targets and the
\* end of the script.
makepy_targets ==
  /\ entry = "makepy"
  /\ pc = "maketargets"
  /\ \E d \in {0} \cup TargetNames :
       IF Len(targets) = 0 /\ d = 0
       THEN \* sys.exit(2) at 159: SystemExit passes the handler of 171
            Finish(log \o <<Ev("defaulttarget", d), Ev("nodefault", 0)>>, 2)
       ELSE LET tl == IF Len(targets) = 0 THEN defaulttargets(d) ELSE targets
                lg == IF Len(targets) = 0
                      THEN log \o <<Ev("defaulttarget", d)>> ELSE log
            IN \E failIdx \in 0..Len(tl) :
                 IF failIdx = 0
                 THEN Finish(lg \o MakeLoop(tl, Len(tl), FALSE)
                                \o <<Ev("leaving", 0)>>, 0)
                 ELSE makepy_except(lg \o MakeLoop(tl, failIdx, TRUE))
  /\ UNCHANGED <<entry, opt, argtargets, rebuilt, fixpoint, tvars, xvars, evars>>

(***************************************************************************)
(* The specifications of the runs.                                         *)
(***************************************************************************)

RunInit(fix) ==
  /\ TracerInit
  /\ NoExtras
  /\ entry \in {"command", "makepy"}
  /\ opt \in (IF entry = "makepy" THEN MakePyOptions ELSE Options)
  /\ argtargets \in TargetLists
  /\ targets = argtargets
  /\ pc = "start"
  /\ restarts = 0
  /\ mkobjs = <<>>
  /\ rebuilt = {}
  /\ fixpoint = fix
  /\ realtargets = [ref |-> "none", own |-> <<>>]
  /\ deferred = <<>>
  /\ log = <<>>

Init == RunInit(FALSE)

Next ==
  \/ main
  \/ RemakeDone
  \/ TargetDone
  \/ RunDeferred
  \/ makepy_start
  \/ makepy_parse
  \/ makepy_targets

Spec == Init /\ [][Next]_vars

\* The remakes obey the restart fixpoint, every callback that is due is
\* called and the context runs what was deferred.
InitFix == RunInit(TRUE)

SpecFix == InitFix /\ [][Next]_vars /\ WF_vars(Next)

(***************************************************************************)
(* Properties of the trace writer.                                         *)
(***************************************************************************)

\* Process p is between the creation of the lockfile in _acquire_lock and
\* its removal in _release_lock.
Holding(p) == tpc[p] \in {"dump", "newline", "flush", "release", "raised"}

\* The positions of the pieces of record k of process p in the trace file.
Positions(p, k) ==
  {i \in 1..Len(file) : file[i].pid = p /\ file[i].rec = k}

\* Record k of process p is in the trace file in full, newline included, its
\* pieces in order and next to each other.
Whole(p, k) ==
  \E i \in 0..Len(file) :
    /\ i + NParts <= Len(file)
    /\ \A j \in 1..NParts : file[i + j] = Piece(p, k, j)
    /\ Positions(p, k) = (i + 1)..(i + NParts)

\* C1: no two processes are between lock acquisition and lock release at
\* the same time; a process that has reached the release of the lock has its
\* whole record and the newline in the file and nothing left in its buffer,
\* and so has every earlier _write it completed; bytes wait in the buffer of
\* a live Tracer only while its process holds the lock; and no piece of
\* another record lies between two pieces of one record.
C1_LockedWritesDoNotInterleave ==
  /\ \A p, q \in Procs : (p # q /\ Holding(p)) => ~Holding(q)
  /\ \A p \in Procs :
       /\ tpc[p] = "release" => (Whole(p, nrec[p]) /\ buf[p] = <<>>)
       /\ tpc[p] \in {"idle", "acquire"} =>
            \A k \in 1..(nrec[p] - (IF tpc[p] = "acquire" THEN 1 ELSE 0)) :
              Whole(p, k)
       /\ (buf[p] # <<>> /\ tpc[p] # "dead") =>
            (Holding(p) /\ locked[p] /\ lockfile)
  /\ \A i, j \in 1..Len(file) :
       (i < j /\ file[i].pid = file[j].pid /\ file[i].rec = file[j].rec) =>
         \A m \in i..j : file[m].pid = file[i].pid /\ file[m].rec = file[i].rec

\* Two processes have each completed a record while the other one was at
\* some time refused the lockfile.
C1_Witness ==
  \E p, q \in Procs :
    /\ p # q
    /\ Whole(p, 1) /\ Whole(q, 1)
    /\ tpc[p] = "idle" /\ tpc[q] = "idle"
    /\ lasterr[q] = "EEXIST"

(***************************************************************************)
(* Properties of the runs.                                                 *)
(***************************************************************************)

\* The positions of the events e in the log.
Idx(e) == {i \in 1..Len(log) : log[i].ev = e}

Terminal == pc \in {"done", "crashed"}

\* C2: the n-th Makefile object is created with restart counter n-1, the
\* counter of a new object is the number of rebuilds reported so far, and
\* every report of a rebuild is followed by the creation of a fresh Makefile
\* object (in make.py by the next iteration of the loop of parse()).
C2_RestartCounter ==
  /\ \A n \in 1..Len(mkobjs) : mkobjs[n] = n - 1
  /\ Cardinality(Idx("makefile")) = Len(mkobjs)
  /\ \A i \in Idx("makefile") :
       /\ log[i].arg = Cardinality({j \in Idx("remade") : j < i})
       /\ log[i].mk = log[i].arg + 1
  /\ \A i \in Idx("remade") :
       IF i < Len(log) THEN log[i + 1].ev = "makefile"
       ELSE entry = "makepy" /\ pc = "parse"

\* A third Makefile object exists: the run restarted twice.
C2_Witness == Len(mkobjs) >= 3 /\ entry = "command" /\ pc = "remaking"

\* C3: some fixed limit, smaller than the cap MaxRestarts that the model puts
\* on the rebuild reports, bounds the number of parse passes of a run.
C3_RestartLimit == Len(mkobjs) < MaxRestarts

\* C4: under the restart fixpoint the run has at most one parse pass more
\* than it has makefiles, and it ends: it delivers its exit code.
C4_RestartLoopTerminates ==
  /\ [](Len(mkobjs) <= Cardinality(makefiles(opt)) + 1)
  /\ <>Terminal

\* A run that restarted once for every makefile and then made its targets.
C4_Witness ==
  /\ pc = "done"
  /\ opt.nfiles = MaxMakefiles
  /\ Len(mkobjs) = MaxMakefiles + 1
  /\ Idx("madeok") # {}

\* C5: a target is handed to make only if the remake of the last Makefile
\* object created has reported neither a rebuild nor an error, it is made
\* against that object, and no error was reported before it.
C5_TargetsAfterRemake ==
  \A i \in Idx("make") :
    /\ Idx("makefile") # {}
    /\ LET last == CHOOSE m \in Idx("makefile") :
                     \A n \in Idx("makefile") : n <= m
       IN /\ last < i
          /\ log[i].mk = log[last].mk
          /\ log[i].mk = Len(mkobjs)
          /\ \E j \in Idx("remakeok") : last < j /\ j < i
          /\ \A j \in Idx("remade") : j < last
    /\ Idx("remakeerror") = {}
    /\ \A j \in Idx("error") \cup Idx("nodefault") : i < j

\* A target is made against the second Makefile object of a callback run.
C5_Witness ==
  /\ entry = "command"
  /\ \E i \in Idx("make") : log[i].mk = 2

ErrorEvents ==
  Idx("error") \cup Idx("remakeerror") \cup Idx("nomakefile")
  \cup Idx("nodefault") \cup Idx("madefail")

\* The number of targets a run is asked for: those of the command line, or
\* the default target.
Requested == IF Len(argtargets) = 0 THEN 1 ELSE Len(argtargets)

\* C6: a delivered exit code is 0 or 2; it is 0 only with -v or when every
\* requested target (or the default target) completed without error; after
\* any error it is 2; and a run that ended has delivered its code.
C6_ExitCode ==
  /\ \A i \in Idx("exit") :
       /\ log[i].arg \in {0, 2}
       /\ log[i].arg = 0 =>
            \/ opt.printversion
            \/ /\ Idx("madefail") = {}
               /\ Cardinality(Idx("madeok")) = Requested
               /\ \A k \in 1..Len(argtargets) :
                    \E j \in Idx("madeok") : log[j].arg = argtargets[k]
       /\ ErrorEvents # {} => log[i].arg = 2
  /\ pc = "done" => Idx("exit") # {}

\* main delivers 0 after two requested targets, and a run delivers 2 after a
\* failed target.
C6_Witness ==
  /\ entry = "command"
  /\ pc = "done"
  /\ Len(argtargets) = 2
  /\ Cardinality(Idx("madeok")) = 2
  /\ \E i \in Idx("exit") : log[i].arg = 0

\* C7: with -k a failed requested target does not stop the run: when the run
\* has ended, make was invoked on every requested target and the exit code
\* delivered is 2.
C7_KeepGoing ==
  (opt.keepgoing /\ pc = "done" /\ Idx("madefail") # {}) =>
    /\ Cardinality(Idx("make")) = Requested
    /\ \A i \in Idx("exit") : log[i].arg = 2

\* C8: without -k no target is started after a completion callback reported
\* an error, and the run that ends after it delivers 2.
C8_StopAtFirstFailure ==
  ~opt.keepgoing =>
    \A i \in Idx("madefail") :
      /\ \A j \in Idx("make") : j < i
      /\ pc = "done" => \E j \in Idx("exit") : i < j /\ log[j].arg = 2
      /\ \A j \in Idx("exit") : log[j].arg = 2

\* main has ended with 2 after the first of two requested targets failed.
C8_Witness ==
  /\ entry = "command"
  /\ ~opt.keepgoing
  /\ pc = "done"
  /\ Len(argtargets) = 2
  /\ Idx("madefail") # {}
  /\ Cardinality(Idx("make")) = 1

\* An error raised while a parse pass executes the command-line statements,
\* includes a makefile, finishes parsing or remakes the makefiles.
ParseErrors == {i \in Idx("error") : log[i].arg >= 1} \cup Idx("remakeerror")

\* C9: when directory printing is on and a parse pass raises an error, the
\* Leaving banner is printed after the error and before exit code 2 is
\* delivered.
C9_LeavingAfterParseError ==
  (Idx("entering") # {} /\ ParseErrors # {}) =>
    \A x \in Idx("exit") :
      /\ log[x].arg = 2
      /\ \E l \in Idx("leaving") :
           l < x /\ \A e \in ParseErrors : e < l

\* C10: a run that printed the Entering banner and started a target prints
\* the Leaving banner exactly once, after the last target activity and
\* before it delivers its exit code.
C10_LeavingOnce ==
  (pc = "done" /\ Idx("entering") # {} /\ Idx("make") # {}) =>
    /\ Cardinality(Idx("leaving")) = 1
    /\ \A l \in Idx("leaving") :
         /\ \A t \in Idx("make") \cup Idx("madeok") \cup Idx("madefail") : t < l
         /\ \A x \in Idx("exit") : l < x

\* C11: a run whose MAKEFLAGS ends with an unescaped backslash ends as an
\* error run: when it is over, exit code 2 has been delivered exactly once.
C11_TrailingBackslashExit ==
  (opt.badflags /\ Terminal) =>
    /\ Cardinality(Idx("exit")) = 1
    /\ \A i \in Idx("exit") : log[i].arg = 2

(***************************************************************************)
(* parsemakeflags: pymake/command.py 18-59 and make.py 14-50.  A string is *)
(* a sequence of one-character strings.                                    *)
(***************************************************************************)

MaxFlagsLen == 4     \* length of the MAKEFLAGS values tried

\* The characters tried: a letter, the dash, a character that is neither
\* (the = of NAME=VALUE), a blank and the backslash.
Chars == {"a", "-", "=", " ", "\\"}

FlagValues == UNION {[1..n -> Chars] : n \in 0..MaxFlagsLen}

\* c.isspace()
isspace(c) == c = " "

\* The letters that occur: a in the values tried, and the short options
\* main puts into MAKEFLAGS.
Letters == {"a", "k", "w", "s", "n", "d", "j"}

\* [a-zA-Z]
isalpha(c) == c \in Letters

\* s.strip(): the whitespace at both ends removed.
RECURSIVE strip(_)
strip(s) ==
  IF s = <<>> THEN s
  ELSE IF isspace(s[1]) THEN strip(Tail(s))
  ELSE IF isspace(s[Len(s)]) THEN strip(SubSeq(s, 1, Len(s) - 1))
  ELSE s

\* The number of letters s begins with.
RECURSIVE alphaprefix(_)
alphaprefix(s) ==
  IF s # <<>> /\ isalpha(s[1]) THEN 1 + alphaprefix(Tail(s)) ELSE 0

\* _simpleopts.match(makeflags), command.py 18 and 30: ^[a-zA-Z]+(\s|$).
simpleopts_match(s) ==
  LET n == alphaprefix(s)
  IN n >= 1 /\ (n = Len(s) \/ isspace(s[n + 1]))

\* makeflags[0] not in ('-', ' '), make.py 21.
makepy_needs_dash(s) == s[1] \notin {"-", " "}

\* The first position from i on that holds no whitespace (command.py 43-44).
RECURSIVE skipspace(_, _)
skipspace(s, i) ==
  IF i <= Len(s) /\ isspace(s[i]) THEN skipspace(s, i + 1) ELSE i

\* curopt += c for the character after a backslash, command.py 51-53.
unescape(curopt, c) == Append(curopt, c)

\* The loop of command.py 36-59 (make.py 27-50) from position i on.
RECURSIVE scan(_, _, _, _)
scan(s, i, opts, curopt) ==
  IF i > Len(s)
  THEN [raised |-> FALSE,
        opts |-> IF curopt # <<>> THEN Append(opts, curopt) ELSE opts]
  ELSE IF isspace(s[i])
  THEN scan(s, skipspace(s, i + 1), Append(opts, curopt), <<>>)
  ELSE IF s[i] = "\\"
  THEN IF i + 1 > Len(s)
       THEN [raised |-> TRUE, opts |-> <<>>]
       ELSE scan(s, i + 2, opts, unescape(curopt, s[i + 1]))
  ELSE scan(s, i + 1, opts, Append(curopt, s[i]))

\* parsemakeflags(env), command.py 19-59.
parsemakeflags(v) ==
  LET s == strip(v)
  IN IF s = <<>> THEN [raised |-> FALSE, opts |-> <<>>]
     ELSE scan(IF simpleopts_match(s) THEN <<"-">> \o s ELSE s, 1, <<>>, <<>>)

\* parsemakeflags(), make.py 14-50.
makepy_parsemakeflags(v) ==
  LET s == strip(v)
  IN IF s = <<>> THEN [raised |-> FALSE, opts |-> <<>>]
     ELSE scan(IF makepy_needs_dash(s) THEN <<"-">> \o s ELSE s, 1, <<>>, <<>>)

InitFlags ==
  /\ entry = "flags"
  /\ TracerInit
  /\ NoRun
  /\ makeflags \in FlagValues
  /\ flagsout = [who |-> "none"]
  /\ trace = <<>>
  /\ ppc = "none"
  /\ pidx = 0
  /\ delivered = <<>>
  /\ events = <<>>
  /\ tobj = [none |-> TRUE]
  /\ ctx = [none |-> TRUE]

\* main evaluates parsemakeflags(env), command.py 330.
main_parsemakeflags ==
  /\ entry = "flags"
  /\ flagsout.who = "none"
  /\ flagsout' = [who |-> "command", res |-> parsemakeflags(makeflags)]
  /\ UNCHANGED <<entry, mvars, tvars, evars, makeflags, trace, ppc, pidx, delivered>>

\* make.py evaluates parsemakeflags(), make.py 88.
makepy_arglist ==
  /\ entry = "flags"
  /\ flagsout.who = "none"
  /\ flagsout' = [who |-> "makepy", res |-> makepy_parsemakeflags(makeflags)]
  /\ UNCHANGED <<entry, mvars, tvars, evars, makeflags, trace, ppc, pidx, delivered>>

NextFlags ==
  \/ main_parsemakeflags
  \/ makepy_arglist

SpecFlags == InitFlags /\ [][NextFlags]_vars

(***************************************************************************)
(* What the MAKEFLAGS claims say, stated on the value itself.              *)
(***************************************************************************)

\* Position i of s follows a backslash that escapes it.
RECURSIVE Escaped(_, _)
Escaped(s, i) == i > 1 /\ s[i - 1] = "\\" /\ ~Escaped(s, i - 1)

\* Position i of s is whitespace that separates tokens.
Separator(s, i) == isspace(s[i]) /\ ~Escaped(s, i)

\* s ends in a backslash that escapes nothing.
EndsInBackslash(s) ==
  s # <<>> /\ s[Len(s)] = "\\" /\ ~Escaped(s, Len(s))

\* The token of s at the positions a..b: the escaping backslashes removed,
\* every other character kept.
TokenAt(s, a, b) ==
  LET keep == {i \in a..b : ~(s[i] = "\\" /\ ~Escaped(s, i))}
      nth[k \in 0..(b - a + 1)] ==
        IF k = 0 THEN a - 1
        ELSE CHOOSE i \in keep : i > nth[k - 1] /\
               \A j \in keep : j > nth[k - 1] => i <= j
  IN [k \in 1..Cardinality(keep) |-> s[nth[k]]]

\* The tokens of s: the maximal runs of positions between separators.
TokenStarts(s) ==
  {a \in 1..Len(s) : ~Separator(s, a) /\ (a = 1 \/ Separator(s, a - 1))}

TokenEnd(s, a) ==
  CHOOSE b \in a..Len(s) :
    /\ \A i \in a..b : ~Separator(s, i)
    /\ b = Len(s) \/ Separator(s, b + 1)

RECURSIVE TokensFrom(_, _)
TokensFrom(s, a) ==
  IF \A x \in TokenStarts(s) : x < a THEN <<>>
  ELSE LET st == CHOOSE x \in TokenStarts(s) :
                   x >= a /\ \A y \in TokenStarts(s) : y >= a => x <= y
       IN <<TokenAt(s, st, TokenEnd(s, st))>> \o TokensFrom(s, TokenEnd(s, st) + 1)

Tokens(s) == TokensFrom(s, 1)

\* The first word of s, blanks at its start skipped, is made of letters only.
RECURSIVE lstrip(_)
lstrip(s) == IF s # <<>> /\ isspace(s[1]) THEN lstrip(Tail(s)) ELSE s

FirstWordIsLetters(s) ==
  LET t == lstrip(s)
      n == alphaprefix(t)
  IN n >= 1 /\ (n = Len(t) \/ isspace(t[n + 1]))

\* The value the entry point who tokenizes: with the dash it adds.
Dashed(who, v) ==
  LET s == strip(v)
  IN IF s # <<>> /\ (IF who = "command" THEN simpleopts_match(s)
                                         ELSE makepy_needs_dash(s))
     THEN <<"-">> \o lstrip(v) ELSE v

\* C12: a value that does not end in an unescaped backslash is returned as
\* its tokens: split at the runs of unescaped whitespace, every backslash
\* removed and the character after it kept; no token at all for an empty or
\* all-whitespace value.
C12_Tokens ==
  (flagsout.who # "none" /\ ~EndsInBackslash(makeflags)) =>
    /\ ~flagsout.res.raised
    /\ flagsout.res.opts = Tokens(Dashed(flagsout.who, makeflags))

\* C13: both entry points tokenize the value with a dash put before it
\* exactly when its first word is made of letters only.
C13_DashForShortOptions ==
  (flagsout.who # "none" /\ ~flagsout.res.raised) =>
    flagsout.res.opts =
      Tokens(IF FirstWordIsLetters(makeflags)
             THEN <<"-">> \o lstrip(makeflags) ELSE makeflags)

(***************************************************************************)
(* The trace file: written by the Tracer callbacks (pymake/command.py      *)
(* 126-191), read by TraceParser (pymake/traceparser.py 234-268).  A line  *)
(* is the text of a JSON array (json) or text that is no JSON (garbage),    *)
(* the elements of an array written as their JSON text;                    *)
(* by tells the lines a Tracer of this run appended from those the file    *)
(* held before.                                                            *)
(***************************************************************************)

MaxLines == 3        \* lines of the trace file

\* The tags of the seven Tracer callbacks.
TracerTags ==
  {"MAKEFILE_BEGIN", "MAKEFILE_FINISH", "TARGET_BEGIN", "TARGET_FINISH",
   "TARGET_PROCESS_RULES", "RULE_CONTEXT_PROCESS_COMMANDS", "COMMAND_RUN"}

\* The list a callback hands to _write: the tag and the data dictionary.
Tracer_record(tag, data) == <<tag, data>>

\* json.dump(o, self.f) and the newline: one line holding the array o.
json_dump(o) == [kind |-> "json", val |-> o, by |-> "tracer"]

\* The lines a trace file may hold before this run: three-element records
\* and text that is no JSON.
FileLines ==
  {[kind |-> "garbage", val |-> <<>>, by |-> "file"]} \cup
  {[kind |-> "json", val |-> <<tag, time, "d">>, by |-> "file"] :
     tag \in {"PYMAKE_BEGIN", "MAKEFILE_BEGIN", "JOB_START"},
     time \in {"1.0", "2.5"}}

TraceFiles == UNION {[1..n -> FileLines] : n \in 0..MaxLines}

InitTrace ==
  /\ entry = "trace"
  /\ TracerInit
  /\ NoRun
  /\ makeflags = <<>>
  /\ flagsout = [who |-> "none"]
  /\ trace \in TraceFiles
  /\ ppc = "none"
  /\ pidx = 0
  /\ delivered = <<>>
  /\ events = <<>>
  /\ tobj = [none |-> TRUE]
  /\ ctx = [none |-> TRUE]

\* One of onmakebegin .. oncommandrun: self._write([ TAG, data ]), the file
\* opened for appending (command.py 84-97 and 126-191).
Tracer_on_callback ==
  /\ entry = "trace"
  /\ ppc = "none"
  /\ Len(trace) < MaxLines
  /\ \E tag \in TracerTags :
       trace' = Append(trace, json_dump(Tracer_record(tag, "d")))
  /\ UNCHANGED <<entry, mvars, tvars, evars, makeflags, flagsout, ppc, pidx, delivered>>

\* json.loads(line): the array of a JSON line, ValueError for other text and
\* for the empty string readline returns at the end of the file.
json_loads(lines, i) ==
  IF i <= Len(lines) /\ lines[i].kind = "json"
  THEN [ok |-> TRUE, o |-> lines[i].val]
  ELSE [ok |-> FALSE, o |-> <<>>]

\* TraceParser.__init__, traceparser.py 238-249.
TraceParser_init ==
  /\ entry = "trace"
  /\ ppc = "none"
  /\ LET data == json_loads(trace, 1)
     IN ppc' = IF ~data.ok THEN "ValueError"
               ELSE IF data.o[1] # "PYMAKE_BEGIN" THEN "AssertionError"
               ELSE IF Len(data.o) < 3 THEN "IndexError"
               ELSE "constructed"
  /\ UNCHANGED <<entry, mvars, tvars, evars, makeflags, flagsout, trace, pidx, delivered>>

\* The callback called with the second and third element exchanged.
callback_args_swapped(o) == <<o[1], o[3], o[2]>>

\* callback(o[0], o[1], o[2], context), traceparser.py 265.
callback_args(o) == <<o[1], o[2], o[3]>>

\* parse_file opens the file, traceparser.py 261.
parse_file ==
  /\ entry = "trace"
  /\ ppc = "constructed"
  /\ ppc' = "parsing"
  /\ pidx' = 0
  /\ delivered' = <<>>
  /\ UNCHANGED <<entry, mvars, tvars, evars, makeflags, flagsout, trace>>

\* One turn of for line in f, traceparser.py 262-268; the loop ends after
\* the last line.
parse_file_line ==
  /\ entry = "trace"
  /\ ppc = "parsing"
  /\ IF pidx = Len(trace)
     THEN ppc' = "parsed" /\ UNCHANGED <<pidx, delivered>>
     ELSE LET r == json_loads(trace, pidx + 1)
          IN /\ pidx' = pidx + 1
             /\ IF ~r.ok
                THEN UNCHANGED <<ppc, delivered>>
                ELSE IF Len(r.o) < 3
                THEN ppc' = "IndexError" /\ UNCHANGED delivered
                ELSE /\ delivered' = Append(delivered, callback_args(r.o))
                     /\ UNCHANGED ppc
  /\ UNCHANGED <<entry, mvars, tvars, evars, makeflags, flagsout, trace>>

NextTrace ==
  \/ Tracer_on_callback
  \/ TraceParser_init
  \/ parse_file
  \/ parse_file_line

SpecTrace == InitTrace /\ [][NextTrace]_vars

\* The tags of the trace format.
ActionTags ==
  TracerTags \cup {"JOB_START", "JOB_FINISH", "PYMAKE_BEGIN", "PYMAKE_FINISH",
                   "MAKEFILE_CREATE", "COMMAND_CREATE"}

\* C14: every line a Tracer wrote is a JSON array of exactly three elements
\* whose first is a tag of the trace format.
C14_ThreeElementRecords ==
  \A i \in 1..Len(trace) :
    trace[i].by = "tracer" =>
      /\ trace[i].kind = "json"
      /\ Len(trace[i].val) = 3
      /\ trace[i].val[1] \in ActionTags

\* The arrays of the JSON lines among lines, in file order.
RecordsOf(lines) ==
  LET js == SelectSeq(lines, LAMBDA l : l.kind = "json")
  IN [i \in 1..Len(js) |-> js[i].val]

\* Every JSON line of the file is a record [action, time, payload].
FileOfRecords ==
  \A i \in 1..Len(trace) : trace[i].kind = "json" => Len(trace[i].val) = 3

\* C16: on a file of records [action, time, payload], parse_file has
\* delivered to the callback exactly the records of the lines read so far, once
\* each, in file order, unchanged; lines that are no JSON are passed over, and
\* the parse ends only after the last line.
C16_ParseRoundTrip ==
  (ppc \in {"parsing", "parsed"} /\ FileOfRecords) =>
    /\ delivered = RecordsOf(SubSeq(trace, 1, pidx))
    /\ ppc = "parsed" => pidx = Len(trace)

C16_Witness ==
  /\ ppc = "parsed"
  /\ FileOfRecords
  /\ Len(trace) = 3
  /\ trace[2].kind = "garbage"
  /\ Len(delivered) = 2
  /\ delivered[1] # delivered[2]

\* C17: a trace file whose first record is MAKEFILE_BEGIN is opened by the
\* parser without an assertion failure or exception.
C17_AcceptsMakefileBeginRoot ==
  (ppc # "none" /\ trace # <<>> /\ trace[1].kind = "json"
     /\ trace[1].val[1] = "MAKEFILE_BEGIN") =>
    ppc \notin {"ValueError", "AssertionError", "IndexError"}

C18_SilentNoBanners ==
  opt.silent => (Idx("entering") = {} /\ Idx("leaving") = {})

\* A silent run with -w that parsed, made a target and ended with code 0.
C18_Witness ==
  /\ opt.silent
  /\ opt.printdir
  /\ pc = "done"
  /\ Idx("madeok") # {}
  /\ \E i \in Idx("exit") : log[i].arg = 0

MakeCalls == SelectSeq([i \in 1..Len(log) |-> i], LAMBDA i : log[i].ev = "make")

\* C20: the k-th make call is for the k-th requested target; every make call
\* but the first comes directly after the previous target's callback reported
\* success; and a run that delivered exit code 0 has made every requested
\* target once, the code delivered after the last completion.
C20_TargetsInOrder ==
  /\ \A k \in 1..Len(MakeCalls) :
       /\ argtargets # <<>> =>
            k <= Len(argtargets) /\ log[MakeCalls[k]].arg = argtargets[k]
       /\ k > 1 =>
            /\ log[MakeCalls[k] - 1].ev = "madeok"
            /\ log[MakeCalls[k] - 1].arg = log[MakeCalls[k - 1]].arg
            /\ \A i \in (MakeCalls[k - 1] + 1)..(MakeCalls[k] - 2) :
                 log[i].ev \notin {"make", "madeok", "madefail"}
  /\ \A e \in Idx("exit") :
       (log[e].arg = 0 /\ ~opt.printversion) =>
         /\ Len(MakeCalls) = (IF argtargets = <<>> THEN 1 ELSE Len(argtargets))
         /\ Cardinality(Idx("madeok")) = Len(MakeCalls)
         /\ Idx("madefail") = {}
         /\ \A i \in Idx("madeok") \cup Idx("make") : i < e

\* Two different targets requested, both made, exit code 0 delivered.
C20_Witness ==
  /\ entry = "command"
  /\ Len(argtargets) = 2
  /\ argtargets[1] # argtargets[2]
  /\ Len(MakeCalls) = 2
  /\ \E e \in Idx("exit") : log[e].arg = 0

\* The events of the steps of a parse pass, and the place of each in the
\* order the claim gives: statements, the makefiles as listed, finish-parsing,
\* the remake.
StepEvents == {"ostmts", "include", "finishparsing", "remakemakefiles"}

StepRank(e) ==
  CASE e.ev = "ostmts" -> 0
    [] e.ev = "include" -> e.arg
    [] e.ev = "finishparsing" -> Cardinality(makefiles(opt)) + 1
    [] e.ev = "remakemakefiles" -> Cardinality(makefiles(opt)) + 2

\* C21: every pass starts on a new Makefile object with the command-line
\* statements; every later step comes directly after the step before it in
\* the order statements, makefiles as listed, finish-parsing, remake; and a
\* step that is not followed by the next one is followed by the error that
\* ended the pass.
C21_PassOrder ==
  /\ \A p \in Idx("makefile") :
       /\ log[p].mk = Cardinality({q \in Idx("makefile") : q <= p})
       /\ p < Len(log) /\ log[p + 1].ev = "ostmts"
  /\ \A p \in 1..Len(log) :
       log[p].ev \in StepEvents =>
         LET r == StepRank(log[p])
         IN /\ p > 1
            /\ IF r = 0 THEN log[p - 1].ev = "makefile"
               ELSE /\ log[p - 1].ev \in StepEvents
                    /\ StepRank(log[p - 1]) = r - 1
            /\ log[p].ev # "remakemakefiles" =>
                 /\ p < Len(log)
                 /\ \/ log[p + 1].ev = "error"
                    \/ /\ log[p + 1].ev \in StepEvents
                       /\ StepRank(log[p + 1]) = r + 1

\* Two makefiles; the first pass went through, the second pass failed in its
\* second include.
C21_Witness ==
  /\ opt.nfiles = 2
  /\ Len(mkobjs) = 2
  /\ Cardinality(Idx("finishparsing")) = 1
  /\ \E p \in Idx("error") :
       /\ log[p - 1] = Ev("include", 2)
       /\ \A q \in Idx("finishparsing") : q < p

\* C22: in a run with no requested target at most one target is made; the
\* run that found a default goal makes that goal and no other target, and the
\* run that found none makes no target and delivers exit code 2 and no other.
C22_DefaultGoal ==
  argtargets = <<>> =>
    /\ MakeCalls # <<>> => Idx("defaulttarget") # {}
    /\ Cardinality(Idx("defaulttarget")) <= 1
    /\ \A p \in Idx("defaulttarget") :
         IF log[p].arg = 0
         THEN /\ MakeCalls = <<>>
              /\ \A e \in Idx("exit") : log[e].arg = 2
              /\ Terminal => Cardinality(Idx("exit")) = 1
         ELSE /\ Len(MakeCalls) = 1
              /\ log[MakeCalls[1]].arg = log[p].arg

\* Both cases: the default goal made and the run over with code 0; no default
\* goal and the run over.
C22_Witness ==
  /\ argtargets = <<>>
  /\ Terminal
  /\ \E p \in Idx("defaulttarget") : log[p].arg # 0
  /\ \E e \in Idx("exit") : log[e].arg = 0

C22_WitnessNoGoal ==
  /\ argtargets = <<>>
  /\ Terminal
  /\ \E p \in Idx("defaulttarget") : log[p].arg = 0

\* C26: one invocation of main never delivers an exit code twice, and when
\* it is over it has delivered one.
C26_ExitExactlyOnce ==
  entry = "command" =>
    /\ Cardinality(Idx("exit")) <= 1
    /\ Terminal => Cardinality(Idx("exit")) = 1

\* The same for the invocations whose MAKEFLAGS is well formed.
ExitExactlyOnceWellFormed ==
  (entry = "command" /\ ~opt.badflags) =>
    /\ Cardinality(Idx("exit")) <= 1
    /\ Terminal => Cardinality(Idx("exit")) = 1

\* C27: the list of targets handed to the Makefile objects has, at every
\* moment of the run, the contents the command line gave it.
C27_TargetListUnchanged ==
  entry = "command" => targets = argtargets

\* C28: a process whose write failed after it had acquired the lock does not
\* hold the lockfile any more.
C28_FailedWriteReleasesLock ==
  \A p \in Procs : tpc[p] = "raised" => ~locked[p]

(***************************************************************************)
(* MAKEFLAGS for sub-makes: main builds the string (command.py 342-381), a *)
(* sub-make reads it back with parsemakeflags and parse_args (330).        *)
(***************************************************************************)

MaxJobs == 3         \* the largest -j value tried

\* The option values of the command line after parse_args, command.py 330-331,
\* for the options that go into MAKEFLAGS.
CmdOptions ==
  [keepgoing : BOOLEAN, silent : BOOLEAN, justprint : BOOLEAN,
   verbose : BOOLEAN, printdir : BOOLEAN, jobcount : 1..MaxJobs]

\* The defaults of the options, command.py 297-329.
OptionDefaults ==
  [keepgoing |-> FALSE, silent |-> FALSE, justprint |-> FALSE,
   verbose |-> FALSE, printdir |-> TRUE, jobcount |-> 1, error |-> FALSE]

DigitChars == <<"0", "1", "2", "3", "4", "5", "6", "7", "8", "9">>

\* '%i' % (n,) for n >= 0.
RECURSIVE format_int(_)
format_int(n) ==
  IF n < 10 THEN <<DigitChars[n + 1]>>
  ELSE Append(format_int(n \div 10), DigitChars[(n % 10) + 1])

\* int(s), the type="int" of option -j; -1 stands for a string that is no
\* number (optparse reports an error).
RECURSIVE parse_int(_)
parse_int(s) ==
  IF s = <<>> \/ \E i \in 1..Len(s) : \A n \in 1..10 : DigitChars[n] # s[i]
  THEN -1
  ELSE LET last == (CHOOSE n \in 1..10 : DigitChars[n] = s[Len(s)]) - 1
       IN IF Len(s) = 1 THEN last
          ELSE 10 * parse_int(SubSeq(s, 1, Len(s) - 1)) + last

\* shortflags, command.py 342-361, in the order of the appends.
shortflags(o) ==
  (IF o.keepgoing THEN <<"k">> ELSE <<>>)
  \o (IF o.printdir THEN <<"w">> ELSE <<>>)
  \o (IF o.silent THEN <<"s">> ELSE <<>>)
  \o (IF o.justprint THEN <<"n">> ELSE <<>>)
  \o (IF o.verbose THEN <<"d">> ELSE <<>>)

\* longflags, command.py 363-377, with no --debug-log and no --trace-log.
longflags(o) ==
  IF o.jobcount # 1 THEN <<<<"-", "j">> \o format_int(o.jobcount)>> ELSE <<>>

\* ' '.join(l)
RECURSIVE join(_)
join(l) ==
  IF l = <<>> THEN <<>>
  ELSE IF Len(l) = 1 THEN l[1]
  ELSE l[1] \o <<" ">> \o join(Tail(l))

\* makeflags, command.py 379-381.
build_makeflags(o) ==
  shortflags(o) \o
  (IF Len(longflags(o)) # 0 THEN <<" ">> \o join(longflags(o)) ELSE <<>>)

\* options.printdir as the run uses it, command.py 351-353.
effective(v) ==
  [keepgoing |-> v.keepgoing, silent |-> v.silent, justprint |-> v.justprint,
   verbose |-> v.verbose, jobcount |-> v.jobcount,
   printdir |-> IF v.silent THEN FALSE ELSE v.printdir]

\* optparse on one argument of the form -xyz, from its i-th character on.
RECURSIVE short_cluster(_, _, _)
short_cluster(t, i, v) ==
  IF i > Len(t) THEN v
  ELSE CASE t[i] = "k" -> short_cluster(t, i + 1, [v EXCEPT !.keepgoing = TRUE])
         [] t[i] = "s" -> short_cluster(t, i + 1, [v EXCEPT !.silent = TRUE])
         [] t[i] = "n" -> short_cluster(t, i + 1, [v EXCEPT !.justprint = TRUE])
         [] t[i] = "d" -> short_cluster(t, i + 1, [v EXCEPT !.verbose = TRUE])
         [] t[i] = "w" -> short_cluster(t, i + 1, [v EXCEPT !.printdir = TRUE])
         [] t[i] = "j" ->
              LET n == parse_int(SubSeq(t, i + 1, Len(t)))
              IN IF n < 0 THEN [v EXCEPT !.error = TRUE]
                 ELSE [v EXCEPT !.jobcount = n]
         [] OTHER -> [v EXCEPT !.error = TRUE]

\* op.parse_args(arglist), command.py 330: the values after the arguments
\* from the k-th on; an argument without a dash is a positional argument.
RECURSIVE parse_args(_, _, _)
parse_args(arglist, k, v) ==
  IF k > Len(arglist) THEN v
  ELSE LET t == arglist[k]
       IN IF Len(t) >= 2 /\ t[1] = "-" /\ t[2] # "-"
          THEN parse_args(arglist, k + 1, short_cluster(t, 2, v))
          ELSE IF t # <<>> /\ t[1] = "-"
          THEN [v EXCEPT !.error = TRUE]
          ELSE parse_args(arglist, k + 1, v)

InitRoundTrip ==
  /\ entry = "roundtrip"
  /\ TracerInit
  /\ opt \in CmdOptions
  /\ pc = "none"
  /\ restarts = 0
  /\ mkobjs = <<>>
  /\ rebuilt = {}
  /\ fixpoint = FALSE
  /\ argtargets = <<>>
  /\ targets = <<>>
  /\ realtargets = [ref |-> "none", own |-> <<>>]
  /\ deferred = <<>>
  /\ log = <<>>
  /\ NoExtras

\* main builds the MAKEFLAGS value for its sub-makes, command.py 342-381.
main_makeflags ==
  /\ entry = "roundtrip"
  /\ flagsout.who = "none"
  /\ makeflags' = build_makeflags(opt)
  /\ flagsout' = [who |-> "main", used |-> effective(opt)]
  /\ UNCHANGED <<entry, mvars, tvars, evars, trace, ppc, pidx, delivered>>

\* A sub-make started with that MAKEFLAGS and no argument parses it,
\* command.py 330-353.
submake_parse_args ==
  /\ entry = "roundtrip"
  /\ flagsout.who = "main"
  /\ LET r == parsemakeflags(makeflags)
         v == IF r.raised THEN [OptionDefaults EXCEPT !.error = TRUE]
              ELSE parse_args(r.opts, 1, OptionDefaults)
     IN flagsout' = [who |-> "submake", used |-> flagsout.used,
                     error |-> v.error, got |-> effective(v)]
  /\ UNCHANGED <<entry, mvars, tvars, evars, makeflags, trace, ppc, pidx, delivered>>

NextRoundTrip ==
  \/ main_makeflags
  \/ submake_parse_args

SpecRoundTrip == InitRoundTrip /\ [][NextRoundTrip]_vars

\* C29: the sub-make that parses the MAKEFLAGS value main built gets the
\* values of keepgoing, silent, justprint, verbose, printdir and jobcount that
\* main used.
C29_MakeflagsRoundTrip ==
  (entry = "roundtrip" /\ flagsout.who = "submake") =>
    /\ ~flagsout.error
    /\ flagsout.got = flagsout.used

\* The same without the print-directory setting.
RoundTripButPrintdir ==
  (entry = "roundtrip" /\ flagsout.who = "submake") =>
    /\ ~flagsout.error
    /\ [flagsout.got EXCEPT !.printdir = TRUE]
         = [flagsout.used EXCEPT !.printdir = TRUE]

(***************************************************************************)
(* The consumers of the trace events: pymake/traceparser.py.  An event is  *)
(* what parse_file hands to a callback: the action, the time and the       *)
(* payload, of which the model keeps the id, the id the payload refers to  *)
(* (parent_id, context_id, makefile_id, target_id) and the job type.  The  *)
(* time of an event is its place in the file.                              *)
(***************************************************************************)

MaxJobEvents == 4    \* events handed to the callback of get_jobs

Ids == {1, 2}

\* The job types of traceparser.py 150-162; a popen payload has the keys
\* executable, argv and shell, a python payload module, method and argv.
JobTypes == {"popen", "python"}

Event(a, t, i, r, ty) ==
  [action |-> a, time |-> t, id |-> i, ref |-> r, type |-> ty]

\* The payload of a JOB_START has the key executable.
has_executable(data) == data.type = "popen"

\* The events get_jobs is tried on: job starts and finishes, and an event of
\* another kind.
JobEvents(t) ==
  {Event("JOB_START", t, i, 0, ty) : i \in Ids, ty \in JobTypes}
  \cup {Event("JOB_FINISH", t, i, 0, "none") : i \in Ids}
  \cup {Event("COMMAND_CREATE", t, 1, 1, "none")}

\* data['wall_time'] = time - job[0], traceparser.py 319.
wall_time(finish, start) == finish - start

\* f with the key k removed: del f[k].
DictDel(f, k) == [x \in (DOMAIN f) \ {k} |-> f[x]]

\* f with f[k] = v set.
DictSet(f, k, v) == [x \in (DOMAIN f) \cup {k} |-> IF x = k THEN v ELSE f[x]]

\* The callback of get_jobs, traceparser.py 305-335, on the tables c.
get_jobs_cb(c, e) ==
  IF e.action = "JOB_START"
  THEN [c EXCEPT !.jobs = DictSet(c.jobs, e.id, [time |-> e.time, data |-> e])]
  ELSE IF e.action = "JOB_FINISH"
  THEN IF e.id \notin DOMAIN c.jobs THEN c
       ELSE LET job == c.jobs[e.id]
                data == [id |-> job.data.id, type |-> job.data.type,
                         wall_time |-> wall_time(e.time, job.time)]
            IN IF ~has_executable(job.data)
               THEN \* data['executable'], line 325: KeyError
                    [c EXCEPT !.all = Append(c.all, data), !.raised = TRUE]
               ELSE [c EXCEPT !.all = Append(c.all, data),
                              !.jobs = DictDel(c.jobs, e.id)]
  ELSE c

\* The empty function.
EmptyDict == [x \in {} |-> 0]

InitJobs ==
  /\ entry = "jobs"
  /\ TracerInit
  /\ NoRun
  /\ makeflags = <<>>
  /\ flagsout = [who |-> "none"]
  /\ trace = <<>>
  /\ ppc = "none"
  /\ pidx = 0
  /\ delivered = <<>>
  /\ events = <<>>
  /\ tobj = [none |-> TRUE]
  /\ ctx = [jobs |-> EmptyDict, all |-> <<>>, raised |-> FALSE,
            returned |-> FALSE]

\* parse_file hands the next event of the file to the callback of get_jobs.
get_jobs_callback ==
  /\ entry = "jobs"
  /\ ~ctx.raised /\ ~ctx.returned
  /\ Len(events) < MaxJobEvents
  /\ \E e \in JobEvents(Len(events) + 1) :
       /\ events' = Append(events, e)
       /\ ctx' = get_jobs_cb(ctx, e)
  /\ UNCHANGED <<entry, mvars, tvars, xvars, tobj>>

\* The file is at its end: return all, traceparser.py 338.
get_jobs_return ==
  /\ entry = "jobs"
  /\ ~ctx.raised /\ ~ctx.returned
  /\ ctx' = [ctx EXCEPT !.returned = TRUE]
  /\ UNCHANGED <<entry, mvars, tvars, xvars, events, tobj>>

NextJobs ==
  \/ get_jobs_callback
  \/ get_jobs_return

SpecJobs == InitJobs /\ [][NextJobs]_vars

\* The place of the start a finish at place i completes: the last JOB_START
\* of the same id before i, if no JOB_FINISH of that id lies between; 0 if
\* there is none.
PendingStart(evs, i) ==
  LET starts == {j \in 1..(i - 1) :
                   /\ evs[j].action = "JOB_START"
                   /\ evs[j].id = evs[i].id
                   /\ \A k \in (j + 1)..(i - 1) :
                        ~(evs[k].action \in {"JOB_START", "JOB_FINISH"}
                          /\ evs[k].id = evs[i].id)}
  IN IF starts = {} THEN 0 ELSE CHOOSE j \in starts : TRUE

\* The jobs of the events evs as the claim gives them.
RECURSIVE ExpectedJobs(_, _)
ExpectedJobs(evs, n) ==
  IF n = 0 THEN <<>>
  ELSE LET rest == ExpectedJobs(evs, n - 1)
           j == PendingStart(evs, n)
       IN IF evs[n].action = "JOB_FINISH" /\ j # 0
          THEN Append(rest, [id |-> evs[n].id, type |-> evs[j].type,
                             wall_time |-> evs[n].time - evs[j].time])
          ELSE rest

\* C23: get_jobs does not raise, and what it returns is one entry for every
\* JOB_FINISH that has a pending JOB_START of its id, in the order of the
\* finishes, the wall time being the time of the finish minus the time of the
\* most recent start of that id.
C23_GetJobs ==
  entry = "jobs" =>
    /\ ~ctx.raised
    /\ ctx.returned => ctx.all = ExpectedJobs(events, Len(events))

\* The same for files whose jobs are all of type popen.
GetJobsPopen ==
  (entry = "jobs" /\ \A i \in 1..Len(events) : events[i].type # "python") =>
    /\ ~ctx.raised
    /\ ctx.returned => ctx.all = ExpectedJobs(events, Len(events))

(***************************************************************************)
(* Trace._parse_callback, traceparser.py 21-176.                           *)
(***************************************************************************)

MaxTraceEvents == 3  \* events handed to Trace._parse_callback

\* A key that an entry does not have yet.
Absent == -1

\* The events the Trace object is tried on; parent_id 0 is no parent.
TraceEvents(t) ==
  {Event("PYMAKE_BEGIN", t, i, r, "none") : i \in Ids, r \in {0, 1}}
  \cup {Event(a, t, i, 0, "none") :
          a \in {"PYMAKE_FINISH", "MAKEFILE_BEGIN", "MAKEFILE_FINISH",
                 "TARGET_FINISH", "JOB_FINISH"}, i \in Ids}
  \cup {Event(a, t, i, 1, "none") :
          a \in {"MAKEFILE_CREATE", "TARGET_BEGIN", "COMMAND_CREATE"}, i \in Ids}
  \cup {Event("JOB_START", t, i, 0, ty) : i \in Ids, ty \in JobTypes}

\* Trace.__init__, traceparser.py 8-15.
NewTrace ==
  [pymakes |-> EmptyDict, makefiles |-> EmptyDict, targets |-> EmptyDict,
   commands |-> EmptyDict, root_pymake |-> 0, initial_time |-> 0,
   timeline |-> <<>>, raised |-> FALSE, built |-> FALSE]

\* self.timeline.append((time, action, id))
Timeline(t, e) == [t EXCEPT !.timeline = Append(@, <<e.time, e.action, e.id>>)]

\* An event for an unknown id put on the timeline all the same.
unknown_id_on_timeline(t, e) == Timeline(t, e)

\* if id not in self.<table>: return
unknown_id(t, e) == t

\* The entry of the parent with id appended to its list of children, if the
\* parent is in the table.
AddChild(table, parent, field, id) ==
  IF parent \in DOMAIN table
  THEN [table EXCEPT ![parent] = [@ EXCEPT ![field] = Append(@, id)]]
  ELSE table

\* Trace._parse_callback(action, time, data, context).
parse_callback(t, e) ==
  CASE e.action = "PYMAKE_BEGIN" ->
         Timeline([t EXCEPT
           !.pymakes = DictSet(@, e.id,
              [time_start |-> e.time, targets |-> <<>>, parent_id |-> e.ref,
               time_finish |-> Absent, time_wall |-> Absent]),
           !.root_pymake = IF e.ref = 0 THEN e.id ELSE @,
           !.initial_time = IF e.ref = 0 THEN e.time ELSE @], e)
    [] e.action = "PYMAKE_FINISH" ->
         IF e.id \notin DOMAIN t.pymakes THEN unknown_id(t, e)
         ELSE Timeline([t EXCEPT !.pymakes[e.id] =
                [@ EXCEPT !.time_finish = e.time,
                          !.time_wall = e.time - t.pymakes[e.id].time_start]], e)
    [] e.action = "MAKEFILE_CREATE" ->
         Timeline([t EXCEPT
           !.makefiles = DictSet(@, e.id,
              [time_create |-> e.time, targets |-> <<>>, parent_id |-> e.ref,
               time_begin |-> Absent, time_finish |-> Absent,
               time_wall |-> Absent]),
           !.pymakes = AddChild(@, e.ref, "targets", e.id)], e)
    [] e.action = "MAKEFILE_BEGIN" ->
         IF e.id \notin DOMAIN t.makefiles THEN unknown_id(t, e)
         ELSE Timeline([t EXCEPT !.makefiles[e.id] =
                [@ EXCEPT !.time_begin = e.time]], e)
    [] e.action = "MAKEFILE_FINISH" ->
         IF e.id \notin DOMAIN t.makefiles THEN unknown_id(t, e)
         ELSE Timeline([t EXCEPT !.makefiles[e.id] =
                [@ EXCEPT !.time_finish = e.time,
                          !.time_wall = e.time - t.makefiles[e.id].time_create]], e)
    [] e.action = "TARGET_BEGIN" ->
         Timeline([t EXCEPT
           !.targets = DictSet(@, e.id,
              [parent_id |-> e.ref, time_start |-> e.time, commands |-> <<>>,
               time_finish |-> Absent, time_wall |-> Absent]),
           !.makefiles = AddChild(@, e.ref, "targets", e.id)], e)
    [] e.action = "TARGET_FINISH" ->
         IF e.id \notin DOMAIN t.targets THEN unknown_id(t, e)
         ELSE Timeline([t EXCEPT !.targets[e.id] =
                [@ EXCEPT !.time_finish = e.time,
                          !.time_wall = e.time - t.targets[e.id].time_start]], e)
    [] e.action = "COMMAND_CREATE" ->
         Timeline([t EXCEPT
           !.commands = DictSet(@, e.id,
              [parent_id |-> e.ref, time_create |-> e.time, type |-> "none",
               time_start |-> Absent, result |-> Absent, time_end |-> Absent,
               time_wall |-> Absent]),
           !.targets = AddChild(@, e.ref, "commands", e.id)], e)
    [] e.action = "JOB_START" ->
         IF e.id \notin DOMAIN t.commands THEN unknown_id(t, e)
         ELSE IF e.type \notin JobTypes
         THEN [t EXCEPT !.commands[e.id] =
                  [@ EXCEPT !.type = e.type, !.time_start = e.time],
                !.raised = TRUE]
         ELSE Timeline([t EXCEPT !.commands[e.id] =
                [@ EXCEPT !.type = e.type, !.time_start = e.time]], e)
    [] e.action = "JOB_FINISH" ->
         IF e.id \notin DOMAIN t.commands THEN unknown_id(t, e)
         ELSE IF t.commands[e.id].time_start = Absent
         THEN \* entry['time_start'], line 174: KeyError
              [t EXCEPT !.commands[e.id] =
                  [@ EXCEPT !.result = 0, !.time_end = e.time],
                !.raised = TRUE]
         ELSE Timeline([t EXCEPT !.commands[e.id] =
                [@ EXCEPT !.result = 0, !.time_end = e.time,
                          !.time_wall = e.time - t.commands[e.id].time_start]], e)
    [] OTHER -> t

InitTraceObj ==
  /\ entry = "traceobj"
  /\ TracerInit
  /\ NoRun
  /\ makeflags = <<>>
  /\ flagsout = [who |-> "none"]
  /\ trace = <<>>
  /\ ppc = "none"
  /\ pidx = 0
  /\ delivered = <<>>
  /\ events = <<>>
  /\ tobj = NewTrace
  /\ ctx = [none |-> TRUE]

\* parse_file hands the next event of the file to Trace._parse_callback.
Trace_parse_callback ==
  /\ entry = "traceobj"
  /\ ~tobj.raised /\ ~tobj.built
  /\ Len(events) < MaxTraceEvents
  /\ \E e \in TraceEvents(Len(events) + 1) :
       /\ events' = Append(events, e)
       /\ tobj' = parse_callback(tobj, e)
  /\ UNCHANGED <<entry, mvars, tvars, xvars, ctx>>

\* The file is at its end: parse_file and Trace.__init__ return,
\* traceparser.py 17-19.
Trace_init_returns ==
  /\ entry = "traceobj"
  /\ ~tobj.raised /\ ~tobj.built
  /\ tobj' = [tobj EXCEPT !.built = TRUE]
  /\ UNCHANGED <<entry, mvars, tvars, xvars, events, ctx>>

NextTraceObj ==
  \/ Trace_parse_callback
  \/ Trace_init_returns

SpecTraceObj == InitTraceObj /\ [][NextTraceObj]_vars

\* The action that creates the entry an event of action a refers to.
Creator(a) ==
  CASE a = "PYMAKE_FINISH" -> "PYMAKE_BEGIN"
    [] a \in {"MAKEFILE_BEGIN", "MAKEFILE_FINISH"} -> "MAKEFILE_CREATE"
    [] a = "TARGET_FINISH" -> "TARGET_BEGIN"
    [] a \in {"JOB_START", "JOB_FINISH"} -> "COMMAND_CREATE"
    [] OTHER -> "none"

\* The event e refers to an id that no event of evs created.
NeverCreated(evs, e) ==
  /\ Creator(e.action) # "none"
  /\ \A i \in 1..Len(evs) :
       ~(evs[i].action = Creator(e.action) /\ evs[i].id = e.id)

\* C25: the callback called with an event that refers to an id never created
\* leaves the tables and the timeline of the Trace object as they were.
C25_UnknownIdNoChange ==
  [][(entry = "traceobj" /\ events' # events
        /\ NeverCreated(events, events'[Len(events')]))
       => tobj' = tobj]_vars

\* A finish for an id never created arrived after the tables had entries.
C25_Witness ==
  /\ entry = "traceobj"
  /\ Len(events) = 3
  /\ NeverCreated(SubSeq(events, 1, 2), events[3])
  /\ tobj.commands # EmptyDict
  /\ tobj.pymakes # EmptyDict
  /\ Len(tobj.timeline) = 2

\* C30: the callback never raises.
C30_NoException ==
  entry = "traceobj" => ~tobj.raised

(***************************************************************************)
(* TraceParser.get_pymake_instances, traceparser.py 384-556.               *)
(***************************************************************************)

MaxInstEvents == 5   \* events handed to the callback of get_pymake_instances

\* The actions that create an entry.
Creators == {"PYMAKE_BEGIN", "MAKEFILE_CREATE", "TARGET_BEGIN", "COMMAND_CREATE"}

\* The events get_pymake_instances is tried on: two instances, a makefile of
\* each, a target, a command and its job.
InstEvents(t) ==
  {Event(a, t, i, 0, "none") : a \in {"PYMAKE_BEGIN", "PYMAKE_FINISH"}, i \in Ids}
  \cup {Event("MAKEFILE_CREATE", t, i, i, "none") : i \in Ids}
  \cup {Event("TARGET_BEGIN", t, 1, 1, "none"),
        Event("COMMAND_CREATE", t, 1, 1, "none"),
        Event("JOB_START", t, 1, 0, "popen"),
        Event("JOB_FINISH", t, 1, 0, "none")}

\* The ids of a trace are not used twice: e creates no entry that an event
\* of evs has created.
FreshId(evs, e) ==
  e.action \in Creators =>
    \A i \in 1..Len(evs) : ~(evs[i].action = e.action /\ evs[i].id = e.id)

\* ctx of get_pymake_instances, traceparser.py 387-396.
NewInstCtx ==
  [results |-> <<>>, pymakes |-> EmptyDict, makefile_map |-> EmptyDict,
   makefiles |-> EmptyDict, target_map |-> EmptyDict, targets |-> EmptyDict,
   command_map |-> EmptyDict, commands |-> EmptyDict,
   raised |-> FALSE, returned |-> FALSE]

\* f without the keys in ks.
DictDrop(f, ks) == [x \in (DOMAIN f) \ ks |-> f[x]]

\* The makefiles of another instance taken as well.
finished_makefile_ids_all(c, id) == DOMAIN c.makefile_map

\* makefile_ids, traceparser.py 423-429: the pending makefiles of instance id.
finished_makefile_ids(c, id) ==
  {m \in DOMAIN c.makefile_map : c.makefile_map[m] = id}

\* The branch PYMAKE_FINISH of the callback, traceparser.py 411-460.
instances_pymake_finish(c, e) ==
  IF e.id \notin DOMAIN c.pymakes THEN c
  ELSE
    LET mids == finished_makefile_ids(c, e.id)
        tids == {t \in DOMAIN c.target_map : c.target_map[t] \in mids}
        cids == {k \in DOMAIN c.command_map : c.command_map[k] \in tids}
        entry1 == [id |-> e.id,
                   time_start |-> c.pymakes[e.id].time_start,
                   time_finish |-> e.time,
                   wall_time |-> e.time - c.pymakes[e.id].time_start,
                   makefiles |->
                     [m \in mids |->
                        [c.makefiles[m] EXCEPT !.targets =
                           [t \in {x \in tids : c.target_map[x] = m} |->
                              [c.targets[t] EXCEPT !.commands =
                                 [k \in {x \in cids : c.command_map[x] = t} |->
                                    c.commands[k]]]]]]]
    IN [c EXCEPT !.pymakes = DictDel(@, e.id),
                 !.makefile_map = DictDrop(@, mids),
                 !.makefiles = DictDrop(@, mids),
                 !.target_map = DictDrop(@, tids),
                 !.targets = DictDrop(@, tids),
                 !.command_map = DictDrop(@, cids),
                 !.commands = DictDrop(@, cids),
                 !.results = Append(@, entry1)]

\* The callback of get_pymake_instances, traceparser.py 398-551.
instances_cb(c, e) ==
  CASE e.action = "PYMAKE_BEGIN" ->
         [c EXCEPT !.pymakes = DictSet(@, e.id,
            [time_start |-> e.time, makefiles |-> EmptyDict])]
    [] e.action = "PYMAKE_FINISH" -> instances_pymake_finish(c, e)
    [] e.action = "MAKEFILE_CREATE" ->
         [c EXCEPT !.makefile_map = DictSet(@, e.id, e.ref),
                   !.makefiles = DictSet(@, e.id,
                      [targets |-> EmptyDict, time_begin |-> Absent,
                       time_finish |-> Absent])]
    [] e.action = "MAKEFILE_BEGIN" ->
         IF e.id \notin DOMAIN c.makefiles THEN c
         ELSE [c EXCEPT !.makefiles[e.id] = [@ EXCEPT !.time_begin = e.time]]
    [] e.action = "MAKEFILE_FINISH" ->
         IF e.id \notin DOMAIN c.makefiles THEN c
         ELSE [c EXCEPT !.makefiles[e.id] = [@ EXCEPT !.time_finish = e.time]]
    [] e.action = "TARGET_BEGIN" ->
         [c EXCEPT !.target_map = DictSet(@, e.id, e.ref),
                   !.targets = DictSet(@, e.id,
                      [time_start |-> e.time, commands |-> EmptyDict,
                       time_finish |-> Absent])]
    [] e.action = "TARGET_FINISH" ->
         IF e.id \notin DOMAIN c.targets THEN c
         ELSE [c EXCEPT !.targets[e.id] = [@ EXCEPT !.time_finish = e.time]]
    [] e.action = "COMMAND_CREATE" ->
         [c EXCEPT !.command_map = DictSet(@, e.id, e.ref),
                   !.commands = DictSet(@, e.id,
                      [time_create |-> e.time, type |-> "none",
                       time_start |-> Absent, result |-> Absent,
                       time_end |-> Absent, wall_time |-> Absent])]
    [] e.action = "JOB_START" ->
         IF e.id \notin DOMAIN c.commands THEN c
         ELSE IF e.type \notin JobTypes
         THEN [c EXCEPT !.commands[e.id] =
                  [@ EXCEPT !.type = e.type, !.time_start = e.time],
                !.raised = TRUE]
         ELSE [c EXCEPT !.commands[e.id] =
                  [@ EXCEPT !.type = e.type, !.time_start = e.time]]
    [] e.action = "JOB_FINISH" ->
         IF e.id \notin DOMAIN c.commands THEN c
         ELSE IF c.commands[e.id].time_start = Absent
         THEN \* entry['time_start'], line 551: KeyError
              [c EXCEPT !.commands[e.id] =
                  [@ EXCEPT !.result = 0, !.time_end = e.time],
                !.raised = TRUE]
         ELSE [c EXCEPT !.commands[e.id] =
                  [@ EXCEPT !.result = 0, !.time_end = e.time,
                            !.wall_time = e.time - c.commands[e.id].time_start]]
    [] OTHER -> c

InitInstances ==
  /\ entry = "instances"
  /\ TracerInit
  /\ NoRun
  /\ makeflags = <<>>
  /\ flagsout = [who |-> "none"]
  /\ trace = <<>>
  /\ ppc = "none"
  /\ pidx = 0
  /\ delivered = <<>>
  /\ events = <<>>
  /\ tobj = [none |-> TRUE]
  /\ ctx = NewInstCtx

\* parse_file hands the next event of the file to the callback.
get_pymake_instances_callback ==
  /\ entry = "instances"
  /\ ~ctx.raised /\ ~ctx.returned
  /\ Len(events) < MaxInstEvents
  /\ \E e \in InstEvents(Len(events) + 1) :
       /\ FreshId(events, e)
       /\ events' = Append(events, e)
       /\ ctx' = instances_cb(ctx, e)
  /\ UNCHANGED <<entry, mvars, tvars, xvars, tobj>>

\* The file is at its end: return ctx['results'], traceparser.py 556.
get_pymake_instances_return ==
  /\ entry = "instances"
  /\ ~ctx.raised /\ ~ctx.returned
  /\ ctx' = [ctx EXCEPT !.returned = TRUE]
  /\ UNCHANGED <<entry, mvars, tvars, xvars, events, tobj>>

NextInstances ==
  \/ get_pymake_instances_callback
  \/ get_pymake_instances_return

SpecInstances == InitInstances /\ [][NextInstances]_vars

\* evs[f] is a PYMAKE_FINISH of an instance that began before it and has
\* not finished since.
FinishesInstance(evs, f) ==
  /\ evs[f].action = "PYMAKE_FINISH"
  /\ \E b \in 1..(f - 1) :
       /\ evs[b].action = "PYMAKE_BEGIN" /\ evs[b].id = evs[f].id
       /\ \A k \in (b + 1)..(f - 1) :
            ~(evs[k].action = "PYMAKE_FINISH" /\ evs[k].id = evs[f].id)

\* What the instance finished by evs[f] holds: the makefiles created with
\* its id as context before f, their targets, those targets' commands.
InstanceAt(evs, f) ==
  LET mks == {evs[j].id : j \in {i \in 1..(f - 1) :
                 evs[i].action = "MAKEFILE_CREATE" /\ evs[i].ref = evs[f].id}}
      tgs == {<<evs[j].ref, evs[j].id>> : j \in {i \in 1..(f - 1) :
                 evs[i].action = "TARGET_BEGIN" /\ evs[i].ref \in mks}}
      cms == {<<evs[j].ref, evs[j].id>> : j \in {i \in 1..(f - 1) :
                 evs[i].action = "COMMAND_CREATE"
                 /\ \E tg \in tgs : tg[2] = evs[i].ref}}
  IN [id |-> evs[f].id, makefiles |-> mks, targets |-> tgs, commands |-> cms]

RECURSIVE ExpectedInstances(_, _)
ExpectedInstances(evs, n) ==
  IF n = 0 THEN <<>>
  ELSE IF FinishesInstance(evs, n)
       THEN Append(ExpectedInstances(evs, n - 1), InstanceAt(evs, n))
       ELSE ExpectedInstances(evs, n - 1)

\* The ids a returned instance holds.
InstanceHolds(r) ==
  LET tgs == UNION {{<<m, t>> : t \in DOMAIN r.makefiles[m].targets} :
                      m \in DOMAIN r.makefiles}
  IN [id |-> r.id,
      makefiles |-> DOMAIN r.makefiles,
      targets |-> tgs,
      commands |-> UNION {{<<tg[2], k>> :
                             k \in DOMAIN r.makefiles[tg[1]].targets[tg[2]].commands} :
                            tg \in tgs}]

\* Nothing a returned instance holds is pending or held by another instance.
ReportedOnce(c) ==
  LET H(k) == InstanceHolds(c.results[k])
      Second(S) == {x[2] : x \in S}
  IN \A k \in 1..Len(c.results) :
       /\ H(k).makefiles \cap DOMAIN c.makefiles = {}
       /\ Second(H(k).targets) \cap DOMAIN c.targets = {}
       /\ Second(H(k).commands) \cap DOMAIN c.commands = {}
       /\ \A l \in 1..Len(c.results) : l # k =>
            /\ H(k).makefiles \cap H(l).makefiles = {}
            /\ Second(H(k).targets) \cap Second(H(l).targets) = {}
            /\ Second(H(k).commands) \cap Second(H(l).commands) = {}

\* The instances collected after the events read so far are the expected ones.
InstancesAsExpected ==
  /\ Len(ctx.results) = Len(ExpectedInstances(events, Len(events)))
  /\ \A k \in 1..Len(ctx.results) :
       InstanceHolds(ctx.results[k]) = ExpectedInstances(events, Len(events))[k]
  /\ ReportedOnce(ctx)

\* C24: get_pymake_instances reads every event of the file and returns
\* exactly the instances that have a PYMAKE_BEGIN and a later PYMAKE_FINISH,
\* in the order of their finish events, each holding exactly the makefiles
\* created with its id as context before its finish, with their targets and
\* those targets' commands; nothing an instance holds stays in the pending
\* tables or appears under a second instance.
C24_Instances ==
  entry = "instances" => ~ctx.raised /\ InstancesAsExpected

\* The same for the files get_pymake_instances does not raise on.
InstancesWhenNotRaised ==
  (entry = "instances" /\ ~ctx.raised) => InstancesAsExpected

\* An instance was returned with a makefile and its target while a makefile
\* of the other instance stays pending.
InstancesNested ==
  /\ entry = "instances" /\ ctx.returned
  /\ Len(ctx.results) = 1
  /\ InstanceHolds(ctx.results[1]).targets # {}
  /\ DOMAIN ctx.makefiles # {}

=============================================================================
